---- MODULE Spec2Model ----
(***************************************************************************)
(* vcf2seq: fixed-length genomic windows around the variants of a VCF.     *)
(*                                                                         *)
(* Strings are sequences of one-character strings.  A run is main():       *)
(* compute() reads the VCF line by line and handles one alternate allele   *)
(* per step, then write() creates the output file and prints the warnings. *)
(* The input is assumed well formed where the code would otherwise raise   *)
(* an uncaught exception: every data row has at least five columns, a      *)
(* numeric position >= 1, non-empty REF/ALT and a known chromosome.        *)
(***************************************************************************)
EXTENDS Integers, Sequences, FiniteSets, TLC

VARIABLES
    args,      \* usage(): size, type, blank; cols_id of compute() line 67
    pc,        \* main(): "compute", "write", "done", or "exit" after sys.exit
    err,       \* which sys.exit of compute() ended the run
    num_row,   \* compute(): num_row
    row,       \* compute(): position, ref, alts of the current row, next alt
    res_ref,   \* compute(): res_ref
    res_alt,   \* compute(): res_alt
    warnings,  \* compute(): warnings
    w,         \* compute(): the locals of the last pass of the loop body
    npairs,    \* passes of the loop body that reached the accept/reject test
    res,       \* compute(): res, the list returned
    out,       \* write(): the output file
    printed    \* write(): the warnings printed

vars == <<args, pc, err, num_row, row, res_ref, res_alt, warnings, w,
          npairs, res, out, printed>>

----------------------------------------------------------------------------
(* Bounds of the model *)

MaxK == 4
MaxAlleleLen == 3
MaxLines == 2
MaxPairs == 3

----------------------------------------------------------------------------
(* Input data *)

Chr == "chr1"

\* the one chromosome of the genome file
Genome == <<"A", "C", "G", "T", "A", "C">>

Positions == 1 .. Len(Genome)

Types == {"alt", "ref", "both"}

DefaultBlank == "."

StringsUpTo(S, n) == UNION {[1 .. k -> S] : k \in 1 .. n}

\* alleles of the window specification ("N" is not a valid first base)
RefAlleles == StringsUpTo({"A", "."}, MaxAlleleLen) \cup {<<"N">>}
AltAlleles == StringsUpTo({"A", "C", "."}, MaxAlleleLen) \cup {<<"N">>, <<"N", "C">>}

Rep(c, n) == [i \in 1 .. n |-> c]

\* alleles of the run specification
RunRefs == {<<"A">>, <<"N">>}
RunAlts == {<<"C">>, <<".">>, Rep("C", MaxAlleleLen)}
RunPositions == {1, 3}

Max(a, b) == IF a >= b THEN a ELSE b
Min(a, b) == IF a <= b THEN a ELSE b
Odd(n) == n % 2 = 1

----------------------------------------------------------------------------
(* External collaborator: chr_dict[chr][start:end] *)

Fetch(start, end) ==
    LET s == Max(start, 0)
        e == Min(end, Len(Genome))
    IN  IF s >= e THEN <<>> ELSE SubSeq(Genome, s + 1, e)

----------------------------------------------------------------------------
(* compute(): the pure parts of the loop body *)

\* slip: only len(ref) is compared with args.size
LargeRefOnly(size, ref, alt) == Len(ref) > size

\* max(len(ref), len(alt)) > args.size
Large(size, ref, alt) == Max(Len(ref), Len(alt)) > size

NUC(blank) == {"A", "T", "C", "G", blank}

\* slip: only alt[0] is looked at
ValidBasesAltOnly(blank, ref, alt) == alt[1] \in NUC(blank)

\* for nuc in (ref[0], alt[0]): nuc in NUC
ValidBases(blank, ref, alt) == ref[1] \in NUC(blank) /\ alt[1] \in NUC(blank)

\* slip: the blank marker is not counted when k is odd
CorrNoBlank(size, blank, allele) ==
    IF ~Odd(size)
    THEN (IF Odd(Len(allele)) /\ allele # <<blank>> THEN 1 ELSE 0)
    ELSE (IF ~Odd(Len(allele)) THEN 1 ELSE 0)

\* slip: the blank marker is not excluded when k is even
CorrBlankOdd(size, blank, allele) ==
    IF ~Odd(size)
    THEN (IF Odd(Len(allele)) THEN 1 ELSE 0)
    ELSE (IF ~Odd(Len(allele)) THEN 1 ELSE 0)
         + (IF allele = <<blank>> THEN 1 ELSE 0)

\* corr_ref / corr_alt
Corr(size, blank, allele) ==
    IF ~Odd(size)
    THEN (IF Odd(Len(allele)) /\ allele # <<blank>> THEN 1 ELSE 0)
    ELSE (IF ~Odd(Len(allele)) THEN 1 ELSE 0)
         + (IF allele = <<blank>> THEN 1 ELSE 0)

\* l_ref2 / l_alt2
AlleleLen(blank, allele) == IF allele = <<blank>> THEN 0 ELSE Len(allele)

\* l_ref1 / l_alt1
LeftLen(size, l2) == (size - l2) \div 2

\* l_ref3 / l_alt3
RightLen(size, l2, corr) == (size - l2) \div 2 + corr

\* ref_seq = chr_dict[chr][ps_ref1:pe_ref3]
RefSeq(ps_ref2, l_ref1, l_ref2, l_ref3) ==
    Fetch(ps_ref2 - l_ref1, ps_ref2 + l_ref2 + l_ref3)

\* alt = alt if alt != args.blank else ""
AltText(blank, alt) == IF alt # <<blank>> THEN alt ELSE <<>>

\* seq_alt1 = chr_dict[chr][ps_alt1:ps_ref2]
SeqAlt1(ps_ref2, l_alt1) == Fetch(ps_ref2 - l_alt1, ps_ref2)

\* slip: the right flank of ALT starts at the anchor, not after REF
SeqAlt3FromAnchor(ps_ref2, l_ref2, l_alt3) == Fetch(ps_ref2, ps_ref2 + l_alt3)

\* seq_alt3 = chr_dict[chr][ps_alt3:pe_alt3]
SeqAlt3(ps_ref2, l_ref2, l_alt3) ==
    Fetch(ps_ref2 + l_ref2, ps_ref2 + l_ref2 + l_alt3)

\* slip: only the REF window is measured
AcceptedRefOnly(size, ref_seq, alt_seq) == Len(ref_seq) = size

\* slip: the two lengths are compared with each other, not with args.size
AcceptedSameLength(size, ref_seq, alt_seq) == Len(ref_seq) = Len(alt_seq)

\* len(ref_seq) == args.size == len(alt_seq)
Accepted(size, ref_seq, alt_seq) == Len(ref_seq) = size /\ size = Len(alt_seq)

\* the locals of one pass of the loop body over (row, alt)
Locals(size, blank, line, position, ref, alt) ==
    LET corr_ref == Corr(size, blank, ref)
        corr_alt == Corr(size, blank, alt)
        l_ref2 == AlleleLen(blank, ref)
        l_ref1 == LeftLen(size, l_ref2)
        l_ref3 == l_ref1 + corr_ref
        ps_ref2 == position - 1
        l_alt2 == AlleleLen(blank, alt)
        l_alt1 == LeftLen(size, l_alt2)
        l_alt3 == RightLen(size, l_alt2, corr_alt)
        seq_alt1 == SeqAlt1(ps_ref2, l_alt1)
        seq_alt3 == SeqAlt3(ps_ref2, l_ref2, l_alt3)
    IN  [line |-> line, position |-> position, ref |-> ref, alt |-> alt,
         corr_ref |-> corr_ref, corr_alt |-> corr_alt,
         l_ref1 |-> l_ref1, l_ref2 |-> l_ref2, l_ref3 |-> l_ref3,
         l_alt1 |-> l_alt1, l_alt2 |-> l_alt2, l_alt3 |-> l_alt3,
         ps_ref2 |-> ps_ref2,
         ref_seq |-> RefSeq(ps_ref2, l_ref1, l_ref2, l_ref3),
         seq_alt1 |-> seq_alt1, seq_alt3 |-> seq_alt3,
         alt_seq |-> seq_alt1 \o AltText(blank, alt) \o seq_alt3,
         seq_ref2 |-> Fetch(ps_ref2, ps_ref2 + l_ref2)]

\* no pair handled yet
NoLocals ==
    [line |-> 0, position |-> 0, ref |-> <<>>, alt |-> <<>>,
     corr_ref |-> 0, corr_alt |-> 0,
     l_ref1 |-> 0, l_ref2 |-> 0, l_ref3 |-> 0,
     l_alt1 |-> 0, l_alt2 |-> 0, l_alt3 |-> 0,
     ps_ref2 |-> 0, ref_seq |-> <<>>, seq_alt1 |-> <<>>, seq_alt3 |-> <<>>,
     alt_seq |-> <<>>, seq_ref2 |-> <<>>]

Header(position, ref, alt) ==
    [chr |-> Chr, position |-> position, ref |-> ref, alt |-> alt]

\* a line of res_ref / res_alt: header, suffix, added columns, sequence
\* (line and ai tell which input row and which alternate it came from)
Record(kind, l, col_txt, seq, ai) ==
    [header |-> Header(l.position, l.ref, l.alt), kind |-> kind,
     col_txt |-> col_txt, seq |-> seq, line |-> l.line, ai |-> ai]

WarnLarge(l) ==
    [kind |-> "large", line |-> l.line, len |-> 0, text |-> l.alt]
WarnMismatch(l) ==
    [kind |-> "mismatch", line |-> l.line, len |-> l.ps_ref2 + 1,
     text |-> l.seq_ref2]
WarnAltLen(l) ==
    [kind |-> "altlen", line |-> l.line, len |-> Len(l.alt_seq), text |-> <<>>]
WarnSize(l) ==
    [kind |-> "size", line |-> l.line, len |-> Len(l.alt_seq), text |-> <<>>]

\* the warnings appended before the accept/reject decision
EarlyWarnings(size, l) ==
    (IF Large(size, l.ref, l.alt) THEN <<WarnLarge(l)>> ELSE <<>>)
    \o (IF l.l_ref2 # 0 /\ l.ref # l.seq_ref2 THEN <<WarnMismatch(l)>> ELSE <<>>)

\* slip: "if" for "elif", so that an accepted pair falls into the else
RejectionWarningsIf(size, l) ==
    IF Len(l.alt_seq) > size THEN <<WarnAltLen(l)>> ELSE <<WarnSize(l)>>

\* the warnings of the if / elif / else on the two lengths
RejectionWarnings(size, l) ==
    IF Accepted(size, l.ref_seq, l.alt_seq) THEN <<>>
    ELSE IF Len(l.alt_seq) > size THEN <<WarnAltLen(l)>>
    ELSE <<WarnSize(l)>>

RECURSIVE Interleave(_, _, _)
Interleave(rr, ra, i) ==
    IF i > Len(ra) THEN <<>>
    ELSE <<rr[i], ra[i]>> \o Interleave(rr, ra, i + 1)

\* slip: 'both' gives all REF records, then all ALT records
ResultGrouped(type, rr, ra) ==
    IF type = "alt" THEN ra
    ELSE IF type = "ref" THEN rr
    ELSE rr \o ra

\* the tail of compute(): res by args.type
Result(type, rr, ra) ==
    IF type = "alt" THEN ra
    ELSE IF type = "ref" THEN rr
    ELSE Interleave(rr, ra, 1)

\* col_txt = ' '.join([fields[num-1] for num in cols_id])
ColTxt(cols_id) == [i \in 1 .. Len(cols_id) |-> cols_id[i]]

SeqMax(s) == CHOOSE m \in {s[i] : i \in 1 .. Len(s)} :
                 \A i \in 1 .. Len(s) : s[i] <= m

NoRow == [position |-> 0, ref |-> <<>>, alts |-> <<>>, ai |-> 0, col_txt |-> <<>>]

\* the output file before open(args.output, 'w')
NoFile == [exists |-> FALSE, lines |-> <<>>]

----------------------------------------------------------------------------
(* The run *)

Init ==
    /\ args \in [size : 1 .. MaxK, type : Types, blank : {DefaultBlank},
                 cols_id : {<<>>, <<6>>}]
    /\ pc = "compute"
    /\ err = "none"
    /\ num_row = 0
    /\ row = NoRow
    /\ res_ref = <<>>
    /\ res_alt = <<>>
    /\ warnings = <<>>
    /\ w = NoLocals
    /\ npairs = 0
    /\ res = <<>>
    /\ out = NoFile
    /\ printed = <<>>

\* for variant in args.vcf: an empty line or a comment
SkipLine ==
    /\ pc = "compute"
    /\ row = NoRow
    /\ num_row < MaxLines
    /\ num_row' = num_row + 1
    /\ UNCHANGED <<args, pc, err, row, res_ref, res_alt, warnings, w, npairs,
                   res, out, printed>>

\* for variant in args.vcf: a data row, up to alts.split(',')
ReadRow ==
    /\ pc = "compute"
    /\ row = NoRow
    /\ num_row < MaxLines
    /\ num_row' = num_row + 1
    /\ \E nfields \in {5, 6}, position \in RunPositions, ref \in RunRefs,
          n \in 1 .. MaxPairs - npairs :
         \E alts \in [1 .. n -> RunAlts] :
            IF args.cols_id # <<>> /\ SeqMax(args.cols_id) > nfields
            THEN /\ pc' = "exit"
                 /\ err' = "columns"
                 /\ row' = row
            ELSE /\ row' = [position |-> position, ref |-> ref, alts |-> alts,
                            ai |-> 1, col_txt |-> ColTxt(args.cols_id)]
                 /\ UNCHANGED <<pc, err>>
    /\ UNCHANGED <<args, res_ref, res_alt, warnings, w, npairs, res, out, printed>>

\* for alt in alts: one pass of the loop body
ProcessAlt ==
    /\ pc = "compute"
    /\ row # NoRow
    /\ LET alt == row.alts[row.ai]
           l == Locals(args.size, args.blank, num_row, row.position, row.ref, alt)
           large == IF Large(args.size, row.ref, alt) THEN <<WarnLarge(l)>> ELSE <<>>
       IN  IF ~ValidBases(args.blank, row.ref, alt)
           THEN /\ warnings' = warnings \o large
                /\ w' = [NoLocals EXCEPT !.line = num_row,
                                         !.position = row.position,
                                         !.ref = row.ref, !.alt = alt]
                /\ pc' = "exit"
                /\ err' = "base"
                /\ UNCHANGED <<row, res_ref, res_alt, npairs>>
           ELSE /\ w' = l
                /\ npairs' = npairs + 1
                /\ warnings' = warnings \o EarlyWarnings(args.size, l)
                                \o RejectionWarnings(args.size, l)
                /\ IF Accepted(args.size, l.ref_seq, l.alt_seq)
                   THEN /\ res_ref' = Append(res_ref,
                               Record("ref", l, row.col_txt, l.ref_seq, row.ai))
                        /\ res_alt' = Append(res_alt,
                               Record("alt", l, row.col_txt, l.alt_seq, row.ai))
                   ELSE UNCHANGED <<res_ref, res_alt>>
                /\ row' = IF row.ai < Len(row.alts)
                          THEN [row EXCEPT !.ai = row.ai + 1]
                          ELSE NoRow
                /\ UNCHANGED <<pc, err>>
    /\ UNCHANGED <<args, num_row, res, out, printed>>

\* end of the VCF: res is selected by args.type and compute() returns
Return ==
    /\ pc = "compute"
    /\ row = NoRow
    /\ res' = Result(args.type, res_ref, res_alt)
    /\ pc' = "write"
    /\ UNCHANGED <<args, err, num_row, row, res_ref, res_alt, warnings, w,
                   npairs, out, printed>>

\* write(args, results, warnings)
Write ==
    /\ pc = "write"
    /\ out' = [exists |-> TRUE, lines |-> res]
    /\ printed' = IF res = <<>> THEN <<>> ELSE warnings
    /\ pc' = "done"
    /\ UNCHANGED <<args, err, num_row, row, res_ref, res_alt, warnings, w,
                   npairs, res>>

Next == SkipLine \/ ReadRow \/ ProcessAlt \/ Return \/ Write

Spec == Init /\ [][Next]_vars

----------------------------------------------------------------------------
(* One pass of the loop body over every allele pair within the bounds *)

Blanks == {DefaultBlank, "A"}

InitW ==
    /\ args \in [size : 1 .. MaxK, type : {"alt"}, blank : Blanks,
                 cols_id : {<<>>}]
    /\ pc = "compute"
    /\ err = "none"
    /\ num_row = 1
    /\ row \in [position : Positions, ref : RefAlleles,
                alts : {<<a>> : a \in AltAlleles}, ai : {1}, col_txt : {<<>>}]
    /\ res_ref = <<>>
    /\ res_alt = <<>>
    /\ warnings = <<>>
    /\ w = NoLocals
    /\ npairs = 0
    /\ res = <<>>
    /\ out = NoFile
    /\ printed = <<>>

NextW == ProcessAlt

SpecW == InitW /\ [][NextW]_vars

----------------------------------------------------------------------------
(* Properties *)

Range(s) == {s[i] : i \in 1 .. Len(s)}

IsRejection(x) == x.kind \in {"altlen", "size"}

NumRejections(ws) == Cardinality({i \in 1 .. Len(ws) : IsRejection(ws[i])})

IsPrefix(s, t) == Len(s) <= Len(t) /\ SubSeq(t, 1, Len(s)) = s

\* the last pass of the loop body ran to its end (no fatal error)
Completed == npairs > 0 /\ w.line > 0

\* effective length of an allele, as the specification defines it
EffLen(allele) == IF allele = <<args.blank>> THEN 0 ELSE Len(allele)

\* C1: every record of res_ref, res_alt, the returned list and the output
\* file carries a sequence of exactly args.size characters.
C1_SequenceLength ==
    \A r \in Range(res_ref) \cup Range(res_alt) \cup Range(res) \cup Range(out.lines) :
        Len(r.seq) = args.size

C1_Witness ==
    /\ pc = "done"
    /\ args.type = "both"
    /\ args.size >= 2
    /\ Len(out.lines) >= 4
    /\ NumRejections(warnings) >= 1

\* C2: when write() has run, every warning of compute() has been printed,
\* also when the result list is empty.
C2_WarningsPrinted == pc = "done" => printed = warnings

\* r1 comes from an earlier allele pair of the input than r2
Before(r1, r2) ==
    r1.line < r2.line \/ (r1.line = r2.line /\ r1.ai < r2.ai)

SamePair(r1, r2) ==
    r1.line = r2.line /\ r1.ai = r2.ai /\ r1.header = r2.header
    /\ r1.col_txt = r2.col_txt

\* C3: the list compute() returns holds the records of the accepted pairs in
\* input order (rows, then the alternates of a row); with 'both' each pair's
\* REF record is immediately followed by its own ALT record, with 'ref' or
\* 'alt' only that kind appears.
C3_InputOrder ==
    pc \in {"write", "done"} =>
        LET n == npairs - NumRejections(warnings)
        IN  IF args.type = "both"
            THEN /\ Len(res) = 2 * n
                 /\ \A i \in 1 .. n :
                       /\ res[2 * i - 1].kind = "ref"
                       /\ res[2 * i].kind = "alt"
                       /\ SamePair(res[2 * i - 1], res[2 * i])
                 /\ \A i \in 1 .. n - 1 : Before(res[2 * i], res[2 * i + 1])
            ELSE /\ Len(res) = n
                 /\ \A i \in 1 .. n : res[i].kind = args.type
                 /\ \A i \in 1 .. n - 1 : Before(res[i], res[i + 1])

C3_Witness ==
    /\ pc = "done"
    /\ args.type = "both"
    /\ Len(res) = 6
    /\ res[1].line = res[3].line
    /\ res[3].line < res[5].line

\* C5: once a pair whose REF or ALT starts with a character outside
\* A, T, C, G and the blank marker has been reached, the run has ended inside
\* compute() with a fatal error: nothing is returned, the output file is not
\* created, nothing is printed, and no later step is taken.
C5_InvalidBase == w.line > 0 /\ (w.ref[1] \notin {"A", "T", "C", "G", args.blank}
                                 \/ w.alt[1] \notin {"A", "T", "C", "G", args.blank})

C5_FatalBase ==
    /\ [](C5_InvalidBase =>
             /\ pc = "exit"
             /\ err = "base"
             /\ res = <<>>
             /\ ~out.exists
             /\ printed = <<>>)
    /\ [][pc # "exit"]_vars

C5_Witness ==
    /\ pc = "exit"
    /\ err = "base"
    /\ C5_InvalidBase
    /\ Len(res_ref) >= 1
    /\ w.line >= 2

\* C7: a pass of the loop body that runs to its end either appends one REF
\* and one ALT record and no rejection warning, or appends no record and
\* exactly one rejection warning; res_ref and res_alt keep the same length,
\* accepted pairs plus rejection warnings is the number of pairs handled,
\* and what was appended is never changed.
C7_AcceptOrReject ==
    /\ [](/\ Len(res_ref) = Len(res_alt)
          /\ Len(res_ref) + NumRejections(warnings) = npairs)
    /\ [][/\ IsPrefix(res_ref, res_ref')
          /\ IsPrefix(res_alt, res_alt')
          /\ IsPrefix(warnings, warnings')
          /\ npairs' = npairs + 1 =>
                LET added == NumRejections(warnings') - NumRejections(warnings)
                IN  \/ /\ Len(res_ref') = Len(res_ref) + 1
                       /\ Len(res_alt') = Len(res_alt) + 1
                       /\ res_ref'[Len(res_ref')].kind = "ref"
                       /\ res_alt'[Len(res_alt')].kind = "alt"
                       /\ added = 0
                    \/ /\ res_ref' = res_ref
                       /\ res_alt' = res_alt
                       /\ added = 1
          /\ npairs' = npairs => (res_ref' = res_ref /\ res_alt' = res_alt)]_vars

C7_Witness ==
    /\ npairs = 3
    /\ Len(res_ref) = 2
    /\ NumRejections(warnings) = 1
    /\ \E i \in 1 .. Len(warnings) : warnings[i].kind = "size"

C6_Substitution ==
    (/\ Completed
     /\ Len(w.ref) = 1 /\ w.ref # <<args.blank>>
     /\ Len(w.alt) = 1 /\ w.alt # <<args.blank>>
     /\ Len(res_ref) = 1) =>
        LET c == (args.size - 1) \div 2 + 1
            r == res_ref[1].seq
            a == res_alt[1].seq
        IN  /\ Len(r) = args.size /\ Len(a) = args.size
            /\ \A i \in 1 .. args.size : i # c => r[i] = a[i]
            /\ a[c] = w.alt[1]
            /\ r[c] = Genome[w.position]
            /\ w.l_ref1 = w.l_alt1
            /\ w.l_ref3 = w.l_alt3

C6_Witness ==
    /\ Completed
    /\ Len(w.ref) = 1 /\ w.ref # <<args.blank>>
    /\ Len(w.alt) = 1 /\ w.alt # <<args.blank>>
    /\ Len(res_ref) = 1
    /\ args.size = 4
    /\ res_ref[1].seq[2] # res_alt[1].seq[2]
    /\ res_ref[1].seq[2] # w.ref[1]

\* the flank lengths of one allele add up to args.size
FlanksFit(allele, l1, l2, l3, corr) ==
    LET L == EffLen(allele)
    IN  L <= args.size =>
           /\ l2 = L
           /\ l1 = (args.size - L) \div 2
           /\ l1 >= 0
           /\ l3 = l1 + corr
           /\ l3 - l1 \in {0, 1}
           /\ l1 + L + l3 = args.size

\* C8: for an allele of effective length L <= size the left flank is
\* floor((size - L) / 2) >= 0, the right flank is the left flank plus corr,
\* at most one longer, and left + L + right = size.
C8_FlankLengths ==
    Completed =>
        /\ FlanksFit(w.ref, w.l_ref1, w.l_ref2, w.l_ref3, w.corr_ref)
        /\ FlanksFit(w.alt, w.l_alt1, w.l_alt2, w.l_alt3, w.corr_alt)

C8_Witness ==
    /\ Completed
    /\ ~Odd(args.size)
    /\ EffLen(w.ref) = 1
    /\ w.l_ref3 = w.l_ref1 + 1
    /\ w.alt = <<args.blank>>
    /\ Odd(w.l_alt1 + w.l_alt3) = Odd(args.size)

\* the parity rule as the specification words it
SpecCorr(allele) ==
    IF ~Odd(args.size)
    THEN (IF EffLen(allele) # 0 /\ Odd(EffLen(allele)) THEN 1 ELSE 0)
    ELSE (IF ~Odd(EffLen(allele)) THEN 1 ELSE 0)
         + (IF allele = <<args.blank>> THEN 1 ELSE 0)

\* C9 as claimed: corr is the specification's rule on the effective length.
C9_SpecRule ==
    Completed => w.corr_ref = SpecCorr(w.ref) /\ w.corr_alt = SpecCorr(w.alt)

\* the parity rule with the blank marker counted once
AmendedCorr(allele) ==
    IF allele = <<args.blank>>
    THEN (IF Odd(args.size) THEN 1 ELSE 0)
    ELSE (IF Odd(args.size) = Odd(Len(allele)) THEN 0 ELSE 1)

\* C9 (amended): for an allele that is not the blank marker corr is 1 when
\* size and the allele's length differ in parity and 0 otherwise; for the
\* blank marker corr is 1 when size is odd (not 2) and 0 when size is even.
C9_ParityCorrection ==
    Completed => w.corr_ref = AmendedCorr(w.ref) /\ w.corr_alt = AmendedCorr(w.alt)

C9_Witness ==
    /\ Completed
    /\ Odd(args.size)
    /\ w.ref = <<args.blank>>
    /\ w.corr_ref = 1
    /\ Len(w.alt) = 2
    /\ w.corr_alt = 1
    /\ Len(res_ref) = 1

====
